---- MODULE Spec2Model ----
(***************************************************************************)
(* Model of the three NiFi FlowFileTransform processors of this repository *)
(*   TrinoCheckDuplicates  (extensions/check_duplicates.py)                *)
(*   CheckDuplicates       (extensions/check_duplicates_service.py)        *)
(*   GeoJSONTransform      (nifi-python-extensions/geojson_transform.py)   *)
(* One behaviour is one invocation of transform() of one processor.        *)
(***************************************************************************)
EXTENDS Integers, Sequences, FiniteSets, TLC

\* ------------------------------------------------------------------ bounds
MaxIncoming == 2   \* longest incoming JSON array
MaxRows     == 2   \* most rows the query returns
MaxFeatures == 2   \* most features of a FeatureCollection

\* ------------------------------------------------------------ value model
\* A Python scalar: an int, a str, or None.
IntV(n) == [t |-> "int", n |-> n, s |-> ""]
StrV(x) == [t |-> "str", n |-> 0, s |-> x]
NoneV   == [t |-> "none", n |-> 0, s |-> ""]

Digit(d) ==
    CASE d = 0 -> "0" [] d = 1 -> "1" [] d = 2 -> "2" [] d = 3 -> "3"
      [] d = 4 -> "4" [] d = 5 -> "5" [] d = 6 -> "6" [] d = 7 -> "7"
      [] d = 8 -> "8" [] d = 9 -> "9"

RECURSIVE IntToStr(_)
IntToStr(n) ==
    IF n < 0 THEN "-" \o IntToStr(0 - n)
    ELSE IF n < 10 THEN Digit(n)
    ELSE IntToStr(n \div 10) \o Digit(n % 10)

\* str(v)
PyStr(v) ==
    CASE v.t = "int"  -> IntToStr(v.n)
      [] v.t = "str"  -> v.s
      [] v.t = "none" -> "None"

\* dict.get(key): the value, or None when the key is absent
Get(d, key) == IF key \in DOMAIN d THEN d[key] ELSE NoneV

\* ---------------------------------------------------------------- inputs
Fields == {"id", "name"}
\* the values a field or column takes: "id" is the integer 5 or the text 7,
\* "name" is the text 5
FieldValues(f) == IF f = "id" THEN {IntV(5), StrV("7")} ELSE {StrV("5")}
Values == UNION {FieldValues(f) : f \in Fields}

\* JSON objects / result-set rows as dicts over a subset of the field names
Records ==
    UNION {{r \in [S -> Values] : \A f \in S : r[f] \in FieldValues(f)}
             : S \in SUBSET Fields}
EmptyRecord == [f \in {} |-> NoneV]

BoundedSeq(S, n) == UNION {[1..k -> S] : k \in 0..n}

\* A JSON text, by what json.loads makes of it: not JSON at all, one object,
\* or an array of objects.
BadDoc         == [kind |-> "bad", obj |-> EmptyRecord, recs |-> <<>>]
ObjectDoc(r)   == [kind |-> "object", obj |-> r, recs |-> <<>>]
ArrayDoc(rs)   == [kind |-> "array", obj |-> EmptyRecord, recs |-> rs]
ContentDocs ==
    {BadDoc} \cup {ObjectDoc(r) : r \in Records}
             \cup {ArrayDoc(rs) : rs \in BoundedSeq(Records, MaxIncoming)}

\* The "Column mapping" property text: not JSON, or an object field -> column
Mappings == UNION {[S -> Fields] : S \in SUBSET Fields}
BadMapping      == [kind |-> "bad", map |-> EmptyRecord]
MappingDoc(m)   == [kind |-> "object", map |-> m]
MappingTexts    == {BadMapping} \cup {MappingDoc(m) : m \in Mappings}

\* Column labels of a result set, in result-set order
ColumnLists == {<<>>, <<"id">>, <<"name">>, <<"id", "name">>}
Range(s) == {s[k] : k \in 1..Len(s)}
IndexOf(s, x) == CHOOSE k \in 1..Len(s) : s[k] = x

\* pd.DataFrame(rows, columns=columns).to_dict(orient='records')
ToDict(cols, rws) ==
    [k \in 1..Len(rws) |-> [c \in Range(cols) |-> rws[k][IndexOf(cols, c)]]]

\* the rows a result set with these column labels can hold
RowsOf(cols) ==
    {row \in [1..Len(cols) -> Values] :
        \A c \in 1..Len(cols) : row[c] \in FieldValues(cols[c])}

\* every result pd.read_sql_query(...).to_dict(orient='records') can give
QueryResults ==
    UNION {{ToDict(cols, rws) : rws \in BoundedSeq(RowsOf(cols), MaxRows)}
             : cols \in ColumnLists}

\* ------------------------------------------- GeoJSONTransform's inputs
\* One member of "features": has it a 'geometry', does shape() accept it,
\* and is 'properties' absent, a dict, or null
Features ==
    [hasGeometry : BOOLEAN, geomOk : BOOLEAN, props : {"absent", "dict", "null"}]

\* the flowfile content: bytes that are not UTF-8, text that is not JSON, a
\* JSON array, a FeatureCollection, or a single geometry / Feature
GeoKinds == {"undecodable", "bad", "list", "collection", "single"}

SourceProps == {"", "EPSG:4326", "WGS84"}       \* Source Coordinate System
DocCrsNames == {"absent", "epsg:25832"}         \* data.crs.properties.name
TargetProps == {"EPSG:25832", "epsg:4326", "EPSG:0"}  \* EPSG:0 is no CRS

GeoInputs ==
    {[kind |-> "collection", features |-> fs, geomOk |-> TRUE,
      source |-> s, docCrs |-> d, target |-> t] :
        fs \in BoundedSeq(Features, MaxFeatures), s \in SourceProps,
        d \in DocCrsNames, t \in TargetProps}
    \cup
    {[kind |-> kd, features |-> <<>>, geomOk |-> g,
      source |-> s, docCrs |-> d, target |-> t] :
        kd \in GeoKinds \ {"collection"}, g \in BOOLEAN, s \in SourceProps,
        d \in DocCrsNames, t \in TargetProps}
NoGeoInput ==
    [kind |-> "bad", features |-> <<>>, geomOk |-> FALSE,
     source |-> "", docCrs |-> "absent", target |-> "EPSG:25832"]

\* str.upper() on the CRS texts
Upper(s) ==
    CASE s = "epsg:25832" -> "EPSG:25832"
      [] s = "epsg:4326"  -> "EPSG:4326"
      [] OTHER            -> s

\* 'EPSG' in s
ContainsEPSG(s) == s \in {"EPSG:4326", "EPSG:25832", "EPSG:0"}

\* Transformer.from_crs accepts the name
KnownCrs(s) == Upper(s) \in {"EPSG:4326", "EPSG:25832"}

\* -------------------------------------------------------------- the state
VARIABLES
    variant,         \* which processor runs: "trino", "service" or "geojson"
    pc,              \* position inside transform()
    contents,        \* flowfile content (a JSON text)
    mappingText,     \* value of the Column mapping property
    flow_data,       \* list of incoming records
    column_mapping,  \* dict field -> column
    conn, stmt, rs,  \* JDBC objects: "none", "open", "closed" (close() called)
    closeLog,        \* the close() calls made, in order
    columns, rows,   \* what the pooled variant has read from the result set
    db_rows,         \* reference records
    i, j,            \* position of the outer / inner loop (1-based)
    is_duplicate,
    duplicates, non_duplicates,
    geo,             \* GeoJSONTransform: flowfile content and properties
    source_crs, target_crs,
    feature_ix,      \* GeoJSONTransform: position in the feature loop
    flattened,       \* GeoJSONTransform: objects built so far
    exc,             \* exception in flight: "none" or its kind
    outcome,         \* "running", "returned" or "raised"
    result           \* <<>> for None, else <<FlowFileTransformResult>>

vars == <<variant, pc, contents, mappingText, flow_data, column_mapping,
          conn, stmt, rs, closeLog, columns, rows, db_rows, i, j,
          is_duplicate, duplicates, non_duplicates, geo, source_crs,
          target_crs, feature_ix, flattened, exc, outcome, result>>

jdbcVars  == <<conn, stmt, rs, closeLog, columns, rows>>
loopVars  == <<i, j, is_duplicate, duplicates, non_duplicates>>
inputVars == <<variant, contents, mappingText, geo>>
geoVars   == <<source_crs, target_crs, feature_ix, flattened>>
classifierVars == <<flow_data, column_mapping, jdbcVars, db_rows, loopVars>>

Classifiers == {"trino", "service"}

Init ==
    /\ \/ /\ variant \in Classifiers
          /\ pc = "contents"
          /\ contents \in ContentDocs
          /\ mappingText \in MappingTexts
          /\ geo = NoGeoInput
       \/ /\ variant = "geojson"
          /\ pc = "load"
          /\ contents = BadDoc
          /\ mappingText = BadMapping
          /\ geo \in GeoInputs
    /\ source_crs = "" /\ target_crs = ""
    /\ feature_ix = 1
    /\ flattened = <<>>
    /\ flow_data = <<>>
    /\ column_mapping = EmptyRecord
    /\ conn = "none" /\ stmt = "none" /\ rs = "none"
    /\ closeLog = <<>>
    /\ columns = <<>> /\ rows = <<>>
    /\ db_rows = <<>>
    /\ i = 1 /\ j = 1
    /\ is_duplicate = FALSE
    /\ duplicates = <<>> /\ non_duplicates = <<>>
    /\ exc = "none"
    /\ outcome = "running"
    /\ result = <<>>

\* ----------------------------------------------------- reading the inputs
\* variant of ParseFails: the parse error is swallowed
ParseNeverFails(doc) == FALSE

\* json.loads raises on a text that is not JSON
ParseFails(doc) == doc.kind = "bad"

\* variant of Normalize: a single object is not wrapped into a list
NormalizeNoWrap(doc) == doc.recs

\* if isinstance(flow_data, dict): flow_data = [flow_data]
Normalize(doc) == IF doc.kind = "object" THEN <<doc.obj>> ELSE doc.recs

\* an uncaught exception leaves transform()
Raise(kind) ==
    /\ exc' = kind
    /\ outcome' = "raised"
    /\ pc' = "done"

ReadContents ==
    /\ variant \in Classifiers /\ pc = "contents"
    /\ IF ParseFails(contents)
         THEN /\ Raise("JSONDecodeError")
              /\ UNCHANGED flow_data
         ELSE /\ flow_data' = Normalize(contents)
              /\ pc' = "mapping"
              /\ UNCHANGED <<exc, outcome>>
    /\ UNCHANGED <<inputVars, column_mapping, jdbcVars, db_rows, loopVars, geoVars, result>>

ReadMapping ==
    /\ variant \in Classifiers /\ pc = "mapping"
    /\ IF ParseFails(mappingText)
         THEN /\ Raise("JSONDecodeError")
              /\ UNCHANGED column_mapping
         ELSE /\ column_mapping' = mappingText.map
              /\ pc' = "fetch"
              /\ UNCHANGED <<exc, outcome>>
    /\ UNCHANGED <<inputVars, flow_data, jdbcVars, db_rows, loopVars, geoVars, result>>

\* ------------------------------------------- engine variant: the query
ReadSqlQuery ==
    /\ variant = "trino" /\ pc = "fetch"
    /\ \/ /\ Raise("DatabaseError")
          /\ UNCHANGED db_rows
       \/ /\ db_rows' \in QueryResults
          /\ pc' = "classify"
          /\ UNCHANGED <<exc, outcome>>
    /\ UNCHANGED <<inputVars, flow_data, column_mapping, jdbcVars, loopVars, geoVars, result>>

\* ------------------------------------------- pooled variant: the query
\* variant of FinallyAfter: no try/finally of its own around the statement
FinallyAfterNoInner(stage) ==
    CASE stage = "prepare" -> "closeConn"
      [] stage = "execute" -> "closeConn"
      [] stage = "meta"    -> "closeRs"
      [] stage = "rows"    -> "closeRs"

\* The handler an exception raised at a stage of the nested try blocks
\* reaches first: the innermost enclosing finally.
FinallyAfter(stage) ==
    CASE stage = "prepare" -> "closeConn"
      [] stage = "execute" -> "closeStmt"
      [] stage = "meta"    -> "closeRs"
      [] stage = "rows"    -> "closeRs"

\* the statement fails inside the try blocks: control goes to the finally
Fail(stage) ==
    /\ exc' = "SQLException"
    /\ pc' = FinallyAfter(stage)
    /\ UNCHANGED outcome

GetConnection ==
    /\ variant = "service" /\ pc = "fetch"
    /\ \/ /\ Raise("SQLException")
          /\ UNCHANGED conn
       \/ /\ conn' = "open"
          /\ pc' = "prepare"
          /\ UNCHANGED <<exc, outcome>>
    /\ UNCHANGED <<inputVars, flow_data, column_mapping, stmt, rs, closeLog,
                   columns, rows, db_rows, loopVars, geoVars, result>>

PrepareStatement ==
    /\ variant = "service" /\ pc = "prepare"
    /\ \/ /\ Fail("prepare")
          /\ UNCHANGED stmt
       \/ /\ stmt' = "open"
          /\ pc' = "execute"
          /\ UNCHANGED <<exc, outcome>>
    /\ UNCHANGED <<inputVars, flow_data, column_mapping, conn, rs, closeLog,
                   columns, rows, db_rows, loopVars, geoVars, result>>

ExecuteQuery ==
    /\ variant = "service" /\ pc = "execute"
    /\ \/ /\ Fail("execute")
          /\ UNCHANGED rs
       \/ /\ rs' = "open"
          /\ pc' = "meta"
          /\ UNCHANGED <<exc, outcome>>
    /\ UNCHANGED <<inputVars, flow_data, column_mapping, conn, stmt, closeLog,
                   columns, rows, db_rows, loopVars, geoVars, result>>

ReadMetaData ==
    /\ variant = "service" /\ pc = "meta"
    /\ \/ /\ Fail("meta")
          /\ UNCHANGED columns
       \/ /\ columns' \in ColumnLists
          /\ pc' = "rows"
          /\ UNCHANGED <<exc, outcome>>
    /\ UNCHANGED <<inputVars, flow_data, column_mapping, conn, stmt, rs, closeLog,
                   rows, db_rows, loopVars, geoVars, result>>

\* one turn of "while rs.next()": a row is read, the result set is
\* exhausted (the frame is built and the try block left), or the driver fails
NextRow ==
    /\ variant = "service" /\ pc = "rows"
    /\ \/ /\ Fail("rows")
          /\ UNCHANGED rows
       \/ /\ Len(rows) < MaxRows
          /\ \E row \in RowsOf(columns) : rows' = Append(rows, row)
          /\ UNCHANGED <<pc, exc, outcome>>
       \/ /\ pc' = "closeRs"
          /\ UNCHANGED <<rows, exc, outcome>>
    /\ UNCHANGED <<inputVars, flow_data, column_mapping, conn, stmt, rs, closeLog,
                   columns, db_rows, loopVars, geoVars, result>>

\* close() in a finally clause: it is called whatever happened before, and
\* may itself raise, which replaces the exception in flight
CloseRs ==
    /\ variant = "service" /\ pc = "closeRs"
    /\ rs' = "closed"
    /\ closeLog' = Append(closeLog, "rs")
    /\ exc' \in {exc, "SQLException"}
    /\ pc' = "closeStmt"
    /\ UNCHANGED <<inputVars, flow_data, column_mapping, conn, stmt,
                   columns, rows, db_rows, loopVars, geoVars, outcome, result>>

CloseStmt ==
    /\ variant = "service" /\ pc = "closeStmt"
    /\ stmt' = "closed"
    /\ closeLog' = Append(closeLog, "stmt")
    /\ exc' \in {exc, "SQLException"}
    /\ pc' = "closeConn"
    /\ UNCHANGED <<inputVars, flow_data, column_mapping, conn, rs,
                   columns, rows, db_rows, loopVars, geoVars, outcome, result>>

\* the outermost finally; after it the exception in flight leaves
\* transform(), or df.to_dict(orient='records') gives the reference records
CloseConn ==
    /\ variant = "service" /\ pc = "closeConn"
    /\ conn' = "closed"
    /\ closeLog' = Append(closeLog, "conn")
    /\ exc' \in {exc, "SQLException"}
    /\ IF exc' # "none"
         THEN /\ outcome' = "raised"
              /\ pc' = "done"
              /\ UNCHANGED db_rows
         ELSE /\ db_rows' = ToDict(columns, rows)
              /\ pc' = "classify"
              /\ UNCHANGED outcome
    /\ UNCHANGED <<inputVars, flow_data, column_mapping, stmt, rs,
                   columns, rows, loopVars, geoVars, result>>

\* ------------------------------------------------- the classification loop
\* variant of PairEqual: the values are compared without str()
PairEqualNoStr(item, db_row, flow_col, db_col) ==
    Get(item, flow_col) = Get(db_row, db_col)

\* str(item.get(flow_col)) == str(db_row.get(db_col))
PairEqual(item, db_row, flow_col, db_col) ==
    PyStr(Get(item, flow_col)) = PyStr(Get(db_row, db_col))

\* variant of AllPairsEqual: any() in place of all()
AnyPairEqual(item, db_row, mapping) ==
    \E flow_col \in DOMAIN mapping :
        PairEqual(item, db_row, flow_col, mapping[flow_col])

\* all(... for flow_col, db_col in column_mapping.items())
AllPairsEqual(item, db_row, mapping) ==
    \A flow_col \in DOMAIN mapping :
        PairEqual(item, db_row, flow_col, mapping[flow_col])

\* variant of AfterMatch: no break, the inner loop goes on to the next row
AfterMatchNoBreak(k, n) == k + 1

\* where the inner loop stands after a match at row k of n: "break" leaves it
AfterMatch(k, n) == n + 1

\* one turn of "for db_row in db_rows" for the current item
CompareRow ==
    /\ variant \in Classifiers /\ pc = "classify"
    /\ i <= Len(flow_data) /\ j <= Len(db_rows)
    /\ IF AllPairsEqual(flow_data[i], db_rows[j], column_mapping)
         THEN /\ is_duplicate' = TRUE
              /\ duplicates' = Append(duplicates, flow_data[i])
              /\ j' = AfterMatch(j, Len(db_rows))
         ELSE /\ j' = j + 1
              /\ UNCHANGED <<is_duplicate, duplicates>>
    /\ UNCHANGED <<inputVars, pc, flow_data, column_mapping, jdbcVars, db_rows,
                   i, non_duplicates, geoVars, exc, outcome, result>>

\* the inner loop is over: "if not is_duplicate: non_duplicates.append(item)",
\* then the next item starts with is_duplicate = False
EndItem ==
    /\ variant \in Classifiers /\ pc = "classify"
    /\ i <= Len(flow_data) /\ j > Len(db_rows)
    /\ non_duplicates' = IF is_duplicate THEN non_duplicates
                         ELSE Append(non_duplicates, flow_data[i])
    /\ i' = i + 1
    /\ j' = 1
    /\ is_duplicate' = FALSE
    /\ UNCHANGED <<inputVars, pc, flow_data, column_mapping, jdbcVars, db_rows,
                   duplicates, geoVars, exc, outcome, result>>

\* ------------------------------------------------------ the output policy
\* json.dumps of a list of records: a JSON array text
Dumps(recs) == ArrayDoc(recs)

TransformResult(rel, doc) == [relationship |-> rel, contents |-> doc]

\* variants of Select: the duplicates are tested first; the duplicates go out
\* on "success"; the duplicates are emitted without the emptiness test
SelectDuplicatesFirst(non_dups, dups) ==
    IF dups # <<>> THEN <<TransformResult("duplicate", Dumps(dups))>>
    ELSE IF non_dups # <<>> THEN <<TransformResult("success", Dumps(non_dups))>>
    ELSE <<>>

SelectAlwaysSuccess(non_dups, dups) ==
    IF non_dups # <<>> THEN <<TransformResult("success", Dumps(non_dups))>>
    ELSE IF dups # <<>> THEN <<TransformResult("success", Dumps(dups))>>
    ELSE <<>>

SelectNoEmptyCheck(non_dups, dups) ==
    IF non_dups # <<>> THEN <<TransformResult("success", Dumps(non_dups))>>
    ELSE <<TransformResult("duplicate", Dumps(dups))>>

\* what transform() returns for the two lists
Select(non_dups, dups) ==
    IF non_dups # <<>> THEN <<TransformResult("success", Dumps(non_dups))>>
    ELSE IF dups # <<>> THEN <<TransformResult("duplicate", Dumps(dups))>>
    ELSE <<>>

Route ==
    /\ variant \in Classifiers /\ pc = "classify"
    /\ i > Len(flow_data)
    /\ result' = Select(non_duplicates, duplicates)
    /\ outcome' = "returned"
    /\ pc' = "done"
    /\ UNCHANGED <<inputVars, flow_data, column_mapping, jdbcVars, db_rows,
                   loopVars, geoVars, exc>>

\* --------------------------------------------------- GeoJSONTransform
\* a statement of the try block raises: control goes to "except Exception"
Caught(kind) ==
    /\ exc' = kind
    /\ pc' = "except"

\* source_crs = property or data.crs.properties.name or 'EPSG:4326';
\* a name without 'EPSG' is replaced by 'EPSG:4326'
SourceCrs(g) ==
    LET named == IF g.source # "" THEN g.source
                 ELSE IF g.docCrs # "absent" THEN g.docCrs
                 ELSE "EPSG:4326"
    IN IF ContainsEPSG(Upper(named)) THEN named ELSE "EPSG:4326"

\* "if source_crs.upper() != target_crs.upper()": the geometry is reprojected
Reprojects(src, tgt) == Upper(src) # Upper(tgt)

\* Transformer.from_crs raises when a name is no CRS
ReprojectFails(src, tgt) == Reprojects(src, tgt) /\ ~(KnownCrs(src) /\ KnownCrs(tgt))

\* the CRS the WKT of a geometry is written in
WktCrs(src, tgt) == IF Reprojects(src, tgt) THEN tgt ELSE src

\* target CRS (the host may fail to evaluate the property),
\* contents_bytes.decode('utf-8'), json.loads
GeoLoad ==
    /\ variant = "geojson" /\ pc = "load"
    /\ \/ /\ Caught("PropertyError")
          /\ UNCHANGED target_crs
       \/ /\ target_crs' = geo.target
          /\ IF geo.kind = "undecodable" THEN Caught("UnicodeDecodeError")
             ELSE IF geo.kind = "bad" THEN Caught("JSONDecodeError")
             ELSE pc' = "dispatch" /\ UNCHANGED exc
    /\ UNCHANGED <<inputVars, classifierVars, source_crs, feature_ix, flattened,
                   outcome, result>>

\* data.get('type') and, for a FeatureCollection, its features and source CRS
GeoDispatch ==
    /\ variant = "geojson" /\ pc = "dispatch"
    /\ IF geo.kind = "list"
         THEN Caught("AttributeError") /\ UNCHANGED source_crs
         ELSE IF geo.kind = "collection"
           THEN /\ source_crs' = SourceCrs(geo)
                /\ pc' = "features"
                /\ UNCHANGED exc
           ELSE /\ pc' = "single"
                /\ UNCHANGED <<source_crs, exc>>
    /\ UNCHANGED <<inputVars, classifierVars, target_crs, feature_ix, flattened,
                   outcome, result>>

\* one turn of "for feature in features"
GeoFeature ==
    /\ variant = "geojson" /\ pc = "features"
    /\ feature_ix <= Len(geo.features)
    /\ LET feature == geo.features[feature_ix] IN
       IF ~feature.hasGeometry
         THEN /\ feature_ix' = feature_ix + 1
              /\ UNCHANGED <<pc, exc, flattened>>
       ELSE IF ~feature.geomOk
         THEN Caught("GeometryTypeError") /\ UNCHANGED <<feature_ix, flattened>>
       ELSE IF ReprojectFails(source_crs, target_crs)
         THEN Caught("CRSError") /\ UNCHANGED <<feature_ix, flattened>>
       ELSE IF feature.props = "null"
         THEN Caught("TypeError") /\ UNCHANGED <<feature_ix, flattened>>
       ELSE /\ flattened' = Append(flattened,
                  [props |-> feature.props, wkt |-> WktCrs(source_crs, target_crs)])
            /\ feature_ix' = feature_ix + 1
            /\ UNCHANGED <<pc, exc>>
    /\ UNCHANGED <<inputVars, classifierVars, source_crs, target_crs,
                   outcome, result>>

\* json.dumps(flattened) and the return on "success"
GeoSerialize ==
    /\ variant = "geojson" /\ pc = "features"
    /\ feature_ix > Len(geo.features)
    /\ result' = <<TransformResult("success", [kind |-> "array", objs |-> flattened])>>
    /\ outcome' = "returned"
    /\ pc' = "done"
    /\ UNCHANGED <<inputVars, classifierVars, geoVars, exc>>

\* the else branch: one geometry or Feature
GeoSingle ==
    /\ variant = "geojson" /\ pc = "single"
    /\ IF ~geo.geomOk
         THEN Caught("GeometryTypeError") /\ UNCHANGED <<source_crs, outcome, result>>
       ELSE /\ source_crs' = SourceCrs(geo)
            /\ IF ReprojectFails(source_crs', target_crs)
                 THEN Caught("CRSError") /\ UNCHANGED <<outcome, result>>
                 ELSE /\ result' = <<TransformResult("success",
                            [kind |-> "object",
                             objs |-> <<[props |-> "absent",
                                         wkt |-> WktCrs(source_crs', target_crs)]>>])>>
                      /\ outcome' = "returned"
                      /\ pc' = "done"
                      /\ UNCHANGED exc
    /\ UNCHANGED <<inputVars, classifierVars, target_crs, feature_ix, flattened>>

\* variant of Catches: "except ValueError" in place of "except Exception"
CatchesValueErrorOnly(kind) == kind \in {"JSONDecodeError", "UnicodeDecodeError"}

\* does "except Exception" take the exception
Catches(kind) == kind # "none"

\* the handler: the diagnostic text goes out on "failure"
GeoExcept ==
    /\ variant = "geojson" /\ pc = "except"
    /\ IF Catches(exc)
         THEN /\ result' = <<TransformResult("failure", [kind |-> "text", objs |-> <<>>])>>
              /\ outcome' = "returned"
         ELSE /\ outcome' = "raised"
              /\ UNCHANGED result
    /\ pc' = "done"
    /\ UNCHANGED <<inputVars, classifierVars, geoVars, exc>>

Next ==
    \/ ReadContents
    \/ ReadMapping
    \/ ReadSqlQuery
    \/ GetConnection
    \/ PrepareStatement
    \/ ExecuteQuery
    \/ ReadMetaData
    \/ NextRow
    \/ CloseRs
    \/ CloseStmt
    \/ CloseConn
    \/ CompareRow
    \/ EndItem
    \/ Route
    \/ GeoLoad
    \/ GeoDispatch
    \/ GeoFeature
    \/ GeoSerialize
    \/ GeoSingle
    \/ GeoExcept

Spec == Init /\ [][Next]_vars

\* ================================================================ claims
\* What the claims speak of, stated without the loop: the incoming records,
\* the string form of a value, and "some reference record satisfies every pair".
Incoming == IF contents.kind = "object" THEN <<contents.obj>> ELSE contents.recs

StringForm(v) ==
    CASE v = NoneV   -> "None"
      [] v = IntV(5) -> "5"
      [] v.t = "str" -> v.s

ValueAt(r, f) == IF f \in DOMAIN r THEN r[f] ELSE NoneV

Satisfies(r, d, m) ==
    \A f \in DOMAIN m : StringForm(ValueAt(r, f)) = StringForm(ValueAt(d, m[f]))

IsMatched(r) == \E n \in 1..Len(db_rows) : Satisfies(r, db_rows[n], column_mapping)

MatchedOf(recs)   == SelectSeq(recs, LAMBDA r : IsMatched(r))
UnmatchedOf(recs) == SelectSeq(recs, LAMBDA r : ~IsMatched(r))

\* the members of seq at the positions p with m[p] = b, in order
Pick(seq, m, b) ==
    LET idx == SelectSeq([p \in 1..Len(seq) |-> p], LAMBDA p : m[p] = b)
    IN [q \in 1..Len(idx) |-> seq[idx[q]]]

Returned  == variant \in Classifiers /\ outcome = "returned"
LoopEnded == /\ variant \in Classifiers
             /\ \/ pc = "classify" /\ i > Len(flow_data)
                \/ outcome = "returned"
NotClassified ==
    duplicates = <<>> /\ non_duplicates = <<>> /\ i = 1 /\ j = 1 /\ ~is_duplicate

\* C1: when some incoming record is unmatched, the result goes out on
\* "success", its payload is exactly the unmatched records in incoming order,
\* and no matched record of the batch is in the output.
C1_UnmatchedToSuccess ==
    (Returned /\ UnmatchedOf(Incoming) # <<>>) =>
        /\ result = <<[relationship |-> "success",
                       contents |-> ArrayDoc(UnmatchedOf(Incoming))]>>
        /\ \A p \in 1..Len(Incoming) :
               IsMatched(Incoming[p]) =>
                   \A q \in 1..Len(result[1].contents.recs) :
                       result[1].contents.recs[q] # Incoming[p]

\* a mixed batch: one record matched and dropped, one unmatched and emitted
C1_Witness ==
    /\ Returned /\ variant = "service"
    /\ Len(Incoming) = 2
    /\ IsMatched(Incoming[1]) /\ ~IsMatched(Incoming[2])
    /\ result # <<>>

\* C2: with a mapping of at least one pair, when the loop ends every incoming
\* position is in exactly one of duplicates / non_duplicates, once, so the
\* two lengths add up to the number of incoming records.
C2_Partition ==
    (LoopEnded /\ DOMAIN column_mapping # {}) =>
        /\ Len(duplicates) + Len(non_duplicates) = Len(flow_data)
        /\ \E m \in [1..Len(flow_data) -> BOOLEAN] :
               /\ duplicates = Pick(flow_data, m, TRUE)
               /\ non_duplicates = Pick(flow_data, m, FALSE)

\* a record that satisfies the mapping against two reference rows was classified
C2_Witness ==
    /\ LoopEnded /\ DOMAIN column_mapping # {}
    /\ Len(flow_data) = 2 /\ Len(db_rows) = 2
    /\ Satisfies(flow_data[1], db_rows[1], column_mapping)
    /\ Satisfies(flow_data[1], db_rows[2], column_mapping)
    /\ ~IsMatched(flow_data[2])

\* C3: a record is classified as matched iff some reference record agrees
\* with it, in string form, on every pair of the mapping (an absent field
\* reads as None); so integer 5 equals text "5" on a pair, and a pair absent
\* on both sides is satisfied.
C3_MatchedIff ==
    LoopEnded =>
        /\ duplicates = MatchedOf(flow_data)
        /\ non_duplicates = UnmatchedOf(flow_data)
        /\ \A p \in 1..Len(flow_data), n \in 1..Len(db_rows), f \in Fields, c \in Fields :
               LET r == flow_data[p]
                   d == db_rows[n]
                   single == DOMAIN column_mapping = {f} /\ column_mapping[f] = c
               IN /\ (single /\ f \in DOMAIN r /\ c \in DOMAIN d
                        /\ r[f] = IntV(5) /\ d[c] = StrV("5"))
                         => \E q \in 1..Len(duplicates) : duplicates[q] = r
                  /\ (single /\ f \notin DOMAIN r /\ c \notin DOMAIN d)
                         => \E q \in 1..Len(duplicates) : duplicates[q] = r

\* integer 5 met text "5" on the only pair, and another record met no row
C3_Witness ==
    /\ LoopEnded
    /\ DOMAIN column_mapping = {"id"} /\ column_mapping["id"] = "name"
    /\ Len(flow_data) = 2 /\ Len(db_rows) >= 1
    /\ "id" \in DOMAIN flow_data[1] /\ flow_data[1]["id"] = IntV(5)
    /\ "name" \in DOMAIN db_rows[1] /\ db_rows[1]["name"] = StrV("5")
    /\ duplicates = <<flow_data[1]>>
    /\ non_duplicates = <<flow_data[2]>>

\* C4: when the incoming sequence is not empty and every record is matched,
\* the result goes out on "duplicate" with all incoming records in order.
C4_AllMatchedToDuplicate ==
    (Returned /\ Incoming # <<>> /\ UnmatchedOf(Incoming) = <<>>) =>
        result = <<[relationship |-> "duplicate", contents |-> ArrayDoc(Incoming)]>>

C4_Witness ==
    /\ Returned /\ variant = "trino"
    /\ Len(Incoming) = 2 /\ Incoming[1] # Incoming[2]
    /\ UnmatchedOf(Incoming) = <<>>
    /\ DOMAIN column_mapping # {}
    /\ result # <<>>

\* C5: an empty incoming array gives no result: once the mapping is parsed
\* and the reference records are fetched the invocation returns None.
C5_EmptyArrayNoResult ==
    (variant \in Classifiers /\ contents = ArrayDoc(<<>>)) =>
        /\ result = <<>>
        /\ NotClassified
        /\ (pc = "classify" => i > Len(flow_data))
        /\ (pc = "done" /\ exc = "none") => outcome = "returned"

C5_Witness ==
    /\ Returned /\ contents = ArrayDoc(<<>>)
    /\ Len(db_rows) = 2 /\ DOMAIN column_mapping = Fields
    /\ result = <<>>

\* C6 as stated: with an empty mapping every incoming record is classified
\* as matched, whatever the reference records (zero rows included).
C6_EmptyMappingAllMatched ==
    (LoopEnded /\ DOMAIN column_mapping = {}) =>
        duplicates = flow_data /\ non_duplicates = <<>>

\* C6 amended: with an empty mapping every incoming record is classified as
\* matched when there is at least one reference row, and as unmatched when
\* there is none.
C6_EmptyMappingByRows ==
    (LoopEnded /\ DOMAIN column_mapping = {}) =>
        IF db_rows # <<>>
          THEN duplicates = flow_data /\ non_duplicates = <<>>
          ELSE non_duplicates = flow_data /\ duplicates = <<>>

C6_Witness ==
    /\ LoopEnded /\ DOMAIN column_mapping = {}
    /\ Len(flow_data) = 2 /\ Len(db_rows) = 1
    /\ "id" \in DOMAIN db_rows[1] /\ "id" \notin DOMAIN flow_data[1]
    /\ duplicates = flow_data

\* C7: a failure to parse the incoming JSON, to parse the mapping, or to
\* fetch the reference records leaves transform() as an exception: nothing
\* is emitted and nothing is classified.
C7_FailurePropagates ==
    LET failed == /\ result = <<>>
                  /\ NotClassified
                  /\ pc = "done" => outcome = "raised"
    IN variant \in Classifiers =>
        /\ (contents.kind = "bad" /\ pc # "contents") => (failed /\ pc = "done")
        /\ (mappingText.kind = "bad" /\ pc \notin {"contents", "mapping"})
               => (failed /\ pc = "done")
        /\ exc # "none" =>
               (failed /\ pc \in {"closeRs", "closeStmt", "closeConn", "done"})
        /\ outcome = "raised" => exc # "none"

\* the driver failed while the rows were read, after one row
C7_Witness ==
    /\ variant = "service" /\ pc = "done" /\ outcome = "raised"
    /\ Len(rows) = 1 /\ rs = "closed"
    /\ Len(flow_data) = 2 /\ result = <<>>

\* C8: a single JSON object R is handled as the array [R]: same
\* classification, same channel, same payload, and the payload is an array.
C8_ObjectAsOneElementArray ==
    (variant \in Classifiers /\ contents.kind = "object") =>
        LET R == contents.obj
            asArray ==
                IF UnmatchedOf(<<R>>) # <<>>
                  THEN <<[relationship |-> "success", contents |-> ArrayDoc(<<R>>)]>>
                  ELSE <<[relationship |-> "duplicate", contents |-> ArrayDoc(<<R>>)]>>
        IN /\ pc # "contents" => flow_data = <<R>>
           /\ LoopEnded => /\ duplicates = MatchedOf(<<R>>)
                           /\ non_duplicates = UnmatchedOf(<<R>>)
           /\ outcome = "returned" => /\ result = asArray
                                      /\ result[1].contents.kind = "array"

C8_Witness ==
    /\ Returned /\ contents.kind = "object"
    /\ DOMAIN contents.obj = Fields
    /\ DOMAIN column_mapping # {} /\ Len(db_rows) = 2
    /\ Len(result) = 1 /\ result[1].relationship = "duplicate"

\* C9: GeoJSONTransform.transform lets no error escape: a failing step gives
\* one result on "failure" holding diagnostic text, otherwise there is one
\* result on "success"; an invocation ends with exactly one result.
C9_GeoAlwaysOneResult ==
    variant = "geojson" =>
        /\ outcome # "raised"
        /\ pc # "done" => (result = <<>> /\ outcome = "running")
        /\ pc = "done" =>
               /\ outcome = "returned"
               /\ Len(result) = 1
               /\ result[1].relationship \in {"success", "failure"}
               /\ (exc # "none") <=> (result[1].relationship = "failure")
               /\ result[1].relationship = "failure" => result[1].contents.kind = "text"
               /\ geo.kind \in {"undecodable", "bad", "list"}
                      => result[1].relationship = "failure"
               /\ (geo.kind = "single" /\ ~geo.geomOk)
                      => result[1].relationship = "failure"

\* the properties of the second feature were null, after the first was built
C9_Witness ==
    /\ variant = "geojson" /\ pc = "done"
    /\ exc = "TypeError" /\ Len(flattened) = 1
    /\ Len(result) = 1 /\ result[1].relationship = "failure"

\* the JDBC objects obtained so far, in order of acquisition
Acquired ==
    (IF conn # "none" THEN <<"conn">> ELSE <<>>)
      \o (IF stmt # "none" THEN <<"stmt">> ELSE <<>>)
      \o (IF rs # "none" THEN <<"rs">> ELSE <<>>)
Reverse(seq) == [p \in 1..Len(seq) |-> seq[Len(seq) + 1 - p]]
IsPrefix(a, b) == Len(a) <= Len(b) /\ \A p \in 1..Len(a) : a[p] = b[p]

\* C10: in the pooled variant every JDBC object that was opened has had
\* close() called when the invocation ends or goes on to classify, and the
\* calls come in reverse order of acquisition: result set, statement,
\* connection.
C10_ResourcesClosed ==
    variant = "service" =>
        /\ IsPrefix(closeLog, Reverse(Acquired))
        /\ pc \in {"classify", "done"} =>
               /\ conn # "open" /\ stmt # "open" /\ rs # "open"
               /\ closeLog = Reverse(Acquired)

\* executeQuery failed: the statement and the connection were closed
C10_Witness ==
    /\ variant = "service" /\ pc = "done" /\ outcome = "raised"
    /\ rs = "none" /\ stmt = "closed" /\ conn = "closed"
    /\ closeLog = <<"stmt", "conn">>
====
